---- MODULE Spec2Model ----
(***************************************************************************)
(* Model of the chat page of the local LLM client (src/src/app/page.tsx):  *)
(* the React state of Home, the sendMessage request/response cycle and     *)
(* the streaming assembler that folds newline-delimited JSON lines into    *)
(* the conversation.                                                       *)
(*                                                                         *)
(* Text is a sequence of characters.  A template literal that embeds an    *)
(* error is the sequence <<prefix, error text>>.                           *)
(*                                                                         *)
(* The wire format is abstracted to a small alphabet that keeps the        *)
(* structure JSON.parse depends on:                                        *)
(*    { a }   an object whose message.content is "a"                       *)
(*    { d }   an object with done: true and no message                     *)
(*    { }     an object without message.content                            *)
(*    x       text that is not JSON                                        *)
(* A proper prefix or suffix of an object is not valid JSON, as in JSON.   *)
(***************************************************************************)
EXTENDS Integers, Sequences, FiniteSets, TLC

\* Bounds of the model.
MaxServed == 4
MaxConv == 2
\* Budget of the chat traffic in the specifications of the side features.
MaxSideServed == 3
\* Speech recognitions alive at the same time.
MaxRecognitions == 1

NL == "\n"
WhitespaceChars == {" ", NL}
ContentChars == {"a", "b"}

\* The lines a server may put on the wire (each is followed by a newline).
LineSet ==
  { <<"{", "a", "}">>, <<"{", "b", "}">>, <<"{", "d", "}">>, <<"x">>, <<" ">> }

\* What the user may type into the input field.
InputSet == { <<>>, <<" ">>, <<"h">> }

\* HTTP statuses of the chat response.
StatusSet == { "200", "500" }

\* Errors a rejected fetch() or reader.read() carries.
NetErrors == { "TypeError: Failed to fetch" }

ParseErrPrefix == "Error processing response: "
ConnErrPrefix == "Sorry, I couldn't connect to the AI. Error: "

----------------------------------------------------------------------------
\* String helpers.

RECURSIVE TrimStart(_)
TrimStart(s) ==
  IF s # <<>> /\ Head(s) \in WhitespaceChars THEN TrimStart(Tail(s)) ELSE s

RECURSIVE TrimEnd(_)
TrimEnd(s) ==
  IF s # <<>> /\ s[Len(s)] \in WhitespaceChars
  THEN TrimEnd(SubSeq(s, 1, Len(s) - 1))
  ELSE s

\* String.prototype.trim
Trim(s) == TrimEnd(TrimStart(s))

\* chunk.split('\n'): the pieces between newlines, empty pieces included.
RECURSIVE SplitNL(_)
SplitNL(s) ==
  IF \E i \in 1..Len(s) : s[i] = NL
  THEN LET i == CHOOSE j \in 1..Len(s) :
                  s[j] = NL /\ \A k \in 1..(j - 1) : s[k] # NL
       IN <<SubSeq(s, 1, i - 1)>> \o SplitNL(SubSeq(s, i + 1, Len(s)))
  ELSE <<s>>

\* A filter that keeps every piece.
KeepAll(line) == TRUE

KeepLine(line) == Trim(line) # <<>>

\* chunk.split('\n').filter(line => line.trim() !== '')
Lines(chunk) == SelectSeq(SplitNL(chunk), KeepLine)

\* Length of the longest prefix of s made of content characters.
RECURSIVE ContentLen(_)
ContentLen(s) ==
  IF s # <<>> /\ Head(s) \in ContentChars THEN 1 + ContentLen(Tail(s)) ELSE 0

\* JSON.parse(line) followed by the reads of parsedLine.message.content and
\* parsedLine.done.  ok is FALSE when JSON.parse throws.
JSONParse(line) ==
  LET t == Trim(line)
      wrapped == Len(t) >= 2 /\ t[1] = "{" /\ t[Len(t)] = "}"
      body == IF wrapped THEN SubSeq(t, 2, Len(t) - 1) ELSE <<>>
      n == ContentLen(body)
      rest == SubSeq(body, n + 1, Len(body))
  IN IF wrapped /\ rest \in { <<>>, <<"d">> }
     THEN [ok |-> TRUE, content |-> SubSeq(body, 1, n), done |-> rest = <<"d">>]
     ELSE [ok |-> FALSE, content |-> <<>>, done |-> FALSE]

\* `Error processing response: ${error}`
ParseDiag == <<ParseErrPrefix, "SyntaxError">>

\* `Sorry, I couldn't connect to the AI. Error: ${error}`
ConnDiag(err) == <<ConnErrPrefix>> \o err

\* new Error(`HTTP error! status: ${response.status}`)
HttpError(status) == <<"Error: HTTP error! status: ", status>>

\* new Error('Response body is null')
NullBodyError == <<"Error: Response body is null">>

Msg(sender, text) == [sender |-> sender, text |-> text]

----------------------------------------------------------------------------
\* The state updaters handed to setMessages.

\* prev => [...prev, { sender: 'ai', text }]
AppendAi(prev, text) == Append(prev, Msg("ai", text))

\* UpdateLast without the check of the last sender.
UpdateLastUnchecked(prev, text) ==
  IF Len(prev) > 0
  THEN [prev EXCEPT ![Len(prev)] = Msg(prev[Len(prev)].sender, text)]
  ELSE Append(prev, Msg("ai", text))

\* UpdateLast that always appends.
UpdateLastAppends(prev, text) == Append(prev, Msg("ai", text))

\* The updater of a non-first content fragment.
UpdateLast(prev, text) ==
  IF Len(prev) > 0 /\ prev[Len(prev)].sender = "ai"
  THEN [prev EXCEPT ![Len(prev)] = Msg(prev[Len(prev)].sender, text)]
  ELSE Append(prev, Msg("ai", text))

----------------------------------------------------------------------------
\* The streaming assembler: the body of `for (const line of lines)`.

\* The loop state: aiResponseText, firstChunk, the conversation as the queued
\* updaters leave it, and two history records: the index of the message the
\* cycle opened with its first content fragment (0 when none) and the log of
\* the decode results of the cycle's lines.
LoopState(text, first, msgs, open, log) ==
  [text |-> text, first |-> first, msgs |-> msgs, open |-> open, log |-> log]

LogEntry(p) == [ok |-> p.ok, content |-> p.content]

\* ProcessLine with `=` in place of `+=`.
ProcessLineReplace(acc, line) ==
  LET p == JSONParse(line)
      text == p.content
  IN IF ~p.ok
     THEN [acc EXCEPT !.msgs = AppendAi(@, ParseDiag),
                      !.log = Append(@, LogEntry(p))]
     ELSE IF p.content # <<>>
     THEN IF acc.first
          THEN [acc EXCEPT !.text = text,
                           !.msgs = AppendAi(@, text),
                           !.first = FALSE,
                           !.open = Len(acc.msgs) + 1,
                           !.log = Append(@, LogEntry(p))]
          ELSE [acc EXCEPT !.text = text,
                           !.msgs = UpdateLast(@, text),
                           !.log = Append(@, LogEntry(p))]
     ELSE [acc EXCEPT !.log = Append(@, LogEntry(p))]

\* ProcessLine without the firstChunk branch: every content fragment goes
\* through the updater of the last message.
ProcessLineAlwaysUpdates(acc, line) ==
  LET p == JSONParse(line)
      text == acc.text \o p.content
  IN IF ~p.ok
     THEN [acc EXCEPT !.msgs = AppendAi(@, ParseDiag),
                      !.log = Append(@, LogEntry(p))]
     ELSE IF p.content # <<>>
     THEN [acc EXCEPT !.text = text,
                      !.msgs = UpdateLast(@, text),
                      !.first = FALSE,
                      !.open = Len(UpdateLast(acc.msgs, text)),
                      !.log = Append(@, LogEntry(p))]
     ELSE [acc EXCEPT !.log = Append(@, LogEntry(p))]

\* One iteration of the loop over the lines of a chunk.
ProcessLine(acc, line) ==
  LET p == JSONParse(line)
      text == acc.text \o p.content
  IN IF ~p.ok
     THEN [acc EXCEPT !.msgs = AppendAi(@, ParseDiag),
                      !.log = Append(@, LogEntry(p))]
     ELSE IF p.content # <<>>
     THEN IF acc.first
          THEN [acc EXCEPT !.text = text,
                           !.msgs = AppendAi(@, text),
                           !.first = FALSE,
                           !.open = Len(acc.msgs) + 1,
                           !.log = Append(@, LogEntry(p))]
          ELSE [acc EXCEPT !.text = text,
                           !.msgs = UpdateLast(@, text),
                           !.log = Append(@, LogEntry(p))]
     ELSE [acc EXCEPT !.log = Append(@, LogEntry(p))]

\* ProcessLines with the try/catch around the loop instead of inside it.
RECURSIVE ProcessLinesStop(_, _)
ProcessLinesStop(acc, lines) ==
  IF lines = <<>> THEN acc
  ELSE IF ~JSONParse(Head(lines)).ok THEN ProcessLine(acc, Head(lines))
  ELSE ProcessLinesStop(ProcessLine(acc, Head(lines)), Tail(lines))

\* ProcessLines with a `break` on a line that carries done.
RECURSIVE ProcessLinesStopAtDone(_, _)
ProcessLinesStopAtDone(acc, lines) ==
  IF lines = <<>> THEN acc
  ELSE IF JSONParse(Head(lines)).done THEN ProcessLine(acc, Head(lines))
  ELSE ProcessLinesStopAtDone(ProcessLine(acc, Head(lines)), Tail(lines))

RECURSIVE ProcessLines(_, _)
ProcessLines(acc, lines) ==
  IF lines = <<>> THEN acc
  ELSE ProcessLines(ProcessLine(acc, Head(lines)), Tail(lines))

\* The work done on one chunk: decode, split, filter, loop.
ProcessChunk(acc, chunk) == ProcessLines(acc, Lines(chunk))

----------------------------------------------------------------------------
\* The transport.

\* All bodies of exactly n newline-terminated lines.
RECURSIVE Streams(_)
Streams(n) ==
  IF n = 0 THEN { <<>> }
  ELSE { l \o <<NL>> \o s : l \in LineSet, s \in Streams(n - 1) }

\* The result an awaited promise has settled with.
Pending == [kind |-> "pending", status |-> "", hasBody |-> FALSE, value |-> <<>>]
Response(status, hasBody) ==
  [kind |-> "response", status |-> status, hasBody |-> hasBody, value |-> <<>>]
Rejected(err) ==
  [kind |-> "rejected", status |-> "", hasBody |-> FALSE, value |-> <<err>>]
Done == [kind |-> "done", status |-> "", hasBody |-> FALSE, value |-> <<>>]

\* response.ok that takes every status for a success.
OkAlways(r) == TRUE

\* response.ok
Ok(r) == r.status = "200"

----------------------------------------------------------------------------
\* The models the settings dialog offers; the first is the default.
DefaultModel == "llama3.2"
ModelSet == { DefaultModel, "mistral" }

\* A role that ignores the sender.
OllamaRoleUser(sender) == "user"

\* role: msg.sender === 'user' ? 'user' : 'assistant'
OllamaRole(sender) == IF sender = "user" THEN "user" ELSE "assistant"

\* updatedMessages.map(msg => ({ role, content: msg.text }))
OllamaMessages(msgs) ==
  [i \in 1..Len(msgs) |->
     [role |-> OllamaRole(msgs[i].sender), content |-> msgs[i].text]]

\* body: JSON.stringify({ model: currentModel, messages, stream: true })
Request(model, msgs) ==
  [model |-> model, messages |-> OllamaMessages(msgs), stream |-> TRUE]
NoRequest == [model |-> "", messages |-> <<>>, stream |-> FALSE]

\* localStorage.getItem returns null: nothing is stored under the key.
NoItem == ""

\* What localStorage can hold under 'preferredModel' when the page is opened.
StoredSet == ModelSet \cup { NoItem }

\* Nothing has been handed to speech synthesis yet.  n tells one call of
\* speak from the next.
NoUtterance == [n |-> 0, text |-> <<>>]

\* What speech recognition hears.
TranscriptSet == { <<>>, <<"h">> }

\* Phases of a SpeechRecognition object.
Live(phase) == phase \in {"starting", "running", "stopping"}

----------------------------------------------------------------------------
VARIABLES
  messages,        \* useState<Message[]>([])
  inputText,       \* useState('')
  isLoading,       \* useState(false)
  pc,              \* where sendMessage is suspended: "idle", "fetch", "read"
  settled,         \* what the awaited promise has settled with
  stream,          \* the response body on the wire
  pos,             \* how much of the body the reader has handed out
  aiResponseText,  \* let aiResponseText = ''
  firstChunk,      \* let firstChunk = true
  openIdx,         \* history: index of the message this cycle opened
  parseLog,        \* history: decode results of the lines of this cycle
  served,          \* requests answered plus lines put on the wire so far
  currentModel,    \* useState<string>('llama3.2')
  request,         \* the body of the request fetch() has been called with
  isListening,     \* useState(false)
  recognitions,    \* the SpeechRecognition objects created, by phase; the
                   \* last one is window.speechRecognition
  ttsEnabled,      \* useState(false)
  utterance,       \* what window.speechSynthesis.speak was last called with
  inFlight,        \* invocations of sendMessage that passed the gate and
                   \* have not returned
  preferredModel,  \* localStorage: the item 'preferredModel' (NoItem: none)
  savedModel,      \* history: what localStorage held when the page was opened
  mount,           \* "rendered": first render committed, its effects not
                   \* yet run; "effects": they have run; "done": the
                   \* re-render they asked for is committed
  queued           \* the values setCurrentModel was called with by the
                   \* mount effects, not yet rendered

modelVars == <<currentModel, preferredModel, savedModel, mount, queued>>

sideVars ==
  <<modelVars, request, isListening, recognitions, ttsEnabled, utterance,
    inFlight>>

vars ==
  <<messages, inputText, isLoading, pc, settled, stream, pos, aiResponseText,
    firstChunk, openIdx, parseLog, served, currentModel, request, isListening,
    recognitions, ttsEnabled, utterance, inFlight, preferredModel, savedModel,
    mount, queued>>

cycleVars == <<stream, pos, aiResponseText, firstChunk, openIdx, parseLog>>

Init ==
  /\ messages = <<>>
  /\ inputText = <<>>
  /\ isLoading = FALSE
  /\ pc = "idle"
  /\ settled = Pending
  /\ stream = <<>>
  /\ pos = 0
  /\ aiResponseText = <<>>
  /\ firstChunk = TRUE
  /\ openIdx = 0
  /\ parseLog = <<>>
  /\ served = 0
  /\ currentModel = DefaultModel
  /\ request = NoRequest
  /\ isListening = FALSE
  /\ recognitions = <<>>
  /\ ttsEnabled = FALSE
  /\ utterance = NoUtterance
  /\ inFlight = 0
  /\ preferredModel = DefaultModel
  /\ savedModel = NoItem
  /\ mount = "done"
  /\ queued = <<>>

\* speakText: if (!ttsEnabled) return; ... window.speechSynthesis.speak(...)
SpeakText(text) ==
  IF ~ttsEnabled' THEN UNCHANGED utterance
  ELSE utterance' = [n |-> 1 - utterance.n, text |-> text]

\* The effect without the test of isLoading.
TtsEffectWhileLoading ==
  IF /\ <<messages', isLoading', ttsEnabled'>> # <<messages, isLoading, ttsEnabled>>
     /\ messages' # <<>>
     /\ messages'[Len(messages')].sender = "ai"
  THEN SpeakText(messages'[Len(messages')].text)
  ELSE UNCHANGED utterance

\* useEffect(() => { if (!isLoading && lastMessage?.sender === 'ai')
\* speakText(lastMessage.text) }, [messages, isLoading, ttsEnabled]): runs
\* after the render of a step that changed one of the three, on the values
\* of that render.
TtsEffect ==
  IF /\ <<messages', isLoading', ttsEnabled'>> # <<messages, isLoading, ttsEnabled>>
     /\ ~isLoading'
     /\ messages' # <<>>
     /\ messages'[Len(messages')].sender = "ai"
  THEN SpeakText(messages'[Len(messages')].text)
  ELSE UNCHANGED utterance

\* sendMessage returns.  The history records and the transport state of the
\* cycle are dropped; aiResponseText and firstChunk keep their last values
\* until the next cycle initialises them.
EndCycle ==
  /\ pc' = "idle"
  /\ settled' = Pending
  /\ stream' = <<>>
  /\ pos' = 0
  /\ openIdx' = 0
  /\ parseLog' = <<>>
  /\ inFlight' = inFlight - 1
  /\ UNCHANGED <<aiResponseText, firstChunk>>

\* A finally clause that leaves the flag alone.
FinallySkipped == UNCHANGED isLoading

\* finally { setIsLoading(false) }
Finally == isLoading' = FALSE

\* The outer catch without the finally clause.
CatchWithoutFinally(err) ==
  /\ messages' = AppendAi(messages, ConnDiag(err))
  /\ EndCycle
  /\ UNCHANGED <<inputText, isLoading, served>>
  /\ UNCHANGED <<modelVars, request, isListening, recognitions, ttsEnabled>>
  /\ TtsEffect

\* An outer catch that writes the diagnostic into the last assistant message.
CatchOverwrites(err) ==
  /\ messages' = UpdateLast(messages, ConnDiag(err))
  /\ Finally
  /\ EndCycle
  /\ UNCHANGED <<inputText, served>>
  /\ UNCHANGED <<modelVars, request, isListening, recognitions, ttsEnabled>>
  /\ TtsEffect

\* catch (error) { setMessages(prev => [...prev, diagnostic]) } finally {...}
CatchAndFinally(err) ==
  /\ messages' = AppendAi(messages, ConnDiag(err))
  /\ Finally
  /\ EndCycle
  /\ UNCHANGED <<inputText, served>>
  /\ UNCHANGED <<modelVars, request, isListening, recognitions, ttsEnabled>>
  /\ TtsEffect

\* onChange of the input field, which is disabled while isLoading.
TypeInput ==
  /\ ~isLoading
  /\ \E v \in InputSet : inputText' = v
  /\ UNCHANGED <<messages, isLoading, pc, settled, served>>
  /\ UNCHANGED cycleVars
  /\ UNCHANGED sideVars

\* A gate that tests the input only.
SendGateInputOnly == Trim(inputText) # <<>>

\* if (!inputText.trim() || isLoading) return;
SendGate == Trim(inputText) # <<>> /\ ~isLoading

\* sendMessage up to the await of fetch().
SendMessage ==
  IF ~SendGate
  THEN UNCHANGED vars
  ELSE /\ served < MaxServed
       /\ messages' = Append(messages, Msg("user", inputText))
       /\ inputText' = <<>>
       /\ isLoading' = TRUE
       /\ pc' = "fetch"
       /\ settled' = Pending
       /\ request' = Request(currentModel, messages')
       /\ inFlight' = inFlight + 1
       /\ UNCHANGED served
       /\ UNCHANGED cycleVars
       /\ UNCHANGED <<modelVars, isListening, recognitions, ttsEnabled>>
       /\ TtsEffect

\* fetch() settles: a response with a status and possibly a body, or a
\* rejection.
FetchSettle ==
  /\ pc = "fetch"
  /\ settled.kind = "pending"
  /\ \/ \E status \in StatusSet, hasBody \in BOOLEAN,
          n \in 0..(MaxServed - served - 1) :
          \E body \in Streams(n) :
            /\ settled' = Response(status, hasBody)
            /\ stream' = IF hasBody THEN body ELSE <<>>
            /\ served' = served + 1 + (IF hasBody THEN n ELSE 0)
     \/ /\ \E err \in NetErrors : settled' = Rejected(err)
        /\ served' = served + 1
        /\ UNCHANGED stream
  /\ request' = NoRequest
  /\ UNCHANGED <<messages, inputText, isLoading, pc, pos, aiResponseText,
                 firstChunk, openIdx, parseLog>>
  /\ UNCHANGED <<modelVars, isListening, recognitions, ttsEnabled,
                 utterance, inFlight>>

\* sendMessage from the await of fetch() to the first await of reader.read().
HandleFetch ==
  /\ pc = "fetch"
  /\ settled.kind \in {"response", "rejected"}
  /\ IF settled.kind = "rejected" THEN CatchAndFinally(settled.value)
     ELSE IF ~Ok(settled) THEN CatchAndFinally(HttpError(settled.status))
     ELSE IF ~settled.hasBody THEN CatchAndFinally(NullBodyError)
     ELSE /\ pc' = "read"
          /\ settled' = Pending
          /\ aiResponseText' = <<>>
          /\ firstChunk' = TRUE
          /\ openIdx' = 0
          /\ parseLog' = <<>>
          /\ UNCHANGED <<messages, inputText, isLoading, stream, pos, served>>
          /\ UNCHANGED sideVars

\* The chunk a read resolves with: the next k characters of the body
\* (decoder.decode in stream mode hands the characters on unchanged).
NextChunk(k) == SubSeq(stream, pos + 1, pos + k)

\* reader.read() resolves with the next piece of the body (the transport cuts
\* it anywhere) and sendMessage runs from that await to the next one.
ReadChunk ==
  /\ pc = "read"
  /\ settled.kind = "pending"
  /\ \E k \in 1..(Len(stream) - pos) :
       LET acc == ProcessChunk(
                    LoopState(aiResponseText, firstChunk, messages,
                              openIdx, parseLog),
                    NextChunk(k))
       IN /\ pos' = pos + k
          /\ aiResponseText' = acc.text
          /\ firstChunk' = acc.first
          /\ messages' = acc.msgs
          /\ openIdx' = acc.open
          /\ parseLog' = acc.log
  /\ UNCHANGED <<inputText, isLoading, pc, settled, stream, served>>
  /\ UNCHANGED <<modelVars, request, isListening, recognitions, ttsEnabled,
                 inFlight>>
  /\ TtsEffect

\* reader.read() rejects, at any point of the body, and sendMessage runs
\* from that await through the outer catch and finally to its end.
ReadFail ==
  /\ pc = "read"
  /\ settled.kind = "pending"
  /\ \E err \in NetErrors : CatchAndFinally(<<err>>)

\* reader.read() reports end of stream once the body is exhausted.
ReadSettle ==
  /\ pc = "read"
  /\ settled.kind = "pending"
  /\ pos = Len(stream)
  /\ settled' = Done
  /\ UNCHANGED <<messages, inputText, isLoading, pc, stream, pos,
                 aiResponseText, firstChunk, openIdx, parseLog, served>>
  /\ UNCHANGED sideVars

\* sendMessage from the last await of reader.read() to its end: `break`,
\* then finally.
HandleRead ==
  /\ pc = "read"
  /\ settled.kind = "done"
  /\ Finally
  /\ EndCycle
  /\ UNCHANGED <<messages, inputText, served>>
  /\ UNCHANGED <<modelVars, request, isListening, recognitions, ttsEnabled>>
  /\ TtsEffect

Next ==
  \/ TypeInput
  \/ SendMessage
  \/ FetchSettle
  \/ HandleFetch
  \/ ReadChunk
  \/ ReadFail
  \/ ReadSettle
  \/ HandleRead

Spec == Init /\ [][Next]_vars

TypeOK ==
  /\ isLoading \in BOOLEAN
  /\ pc \in {"idle", "fetch", "read"}
  /\ pos \in 0..Len(stream)
  /\ firstChunk \in BOOLEAN

----------------------------------------------------------------------------
\* The side features: model selection, voice input, speech output.  Each is
\* specified together with the chat, whose traffic is held to MaxSideServed.

ChatStep == Next /\ served' <= MaxSideServed

chatVars ==
  <<messages, inputText, isLoading, pc, settled, stream, pos, aiResponseText,
    firstChunk, openIdx, parseLog, served>>

\* useEffect(() => { localStorage.setItem('preferredModel', currentModel) },
\* [currentModel]) after a render that changed currentModel.
SaveEffect ==
  preferredModel' =
    IF currentModel' # currentModel THEN currentModel' ELSE preferredModel

\* handleModelChange, called by the settings dialog, and the render it
\* causes.
HandleModelChange ==
  /\ mount = "done"
  /\ \E model \in ModelSet : currentModel' = model
  /\ SaveEffect
  /\ UNCHANGED <<savedModel, mount, queued>>
  /\ UNCHANGED chatVars
  /\ UNCHANGED <<request, isListening, recognitions, ttsEnabled, utterance,
                 inFlight>>

NextModel == ChatStep \/ HandleModelChange

SpecModel == Init /\ [][NextModel]_vars

\* How often React runs the effects of the mount: once, and once more under
\* the development server, where Strict Mode sets every effect up, tears it
\* down and sets it up again.
EffectRuns == {1, 2}

\* The two effects of the mount, run in the order they are declared, on a
\* record of the store and the queue of state updates.  The first reads the
\* stored item and, if there is one, calls setCurrentModel with it; the
\* second stores currentModel as the render being committed saw it.
RunEffects(st) ==
  [stored |-> currentModel,
   queued |-> IF st.stored # NoItem THEN Append(st.queued, st.stored)
              ELSE st.queued]

\* The effects run after the first render is committed.
MountEffects ==
  /\ mount = "rendered"
  /\ \E runs \in EffectRuns :
       LET once == RunEffects([stored |-> preferredModel, queued |-> queued])
           st == IF runs = 1 THEN once ELSE RunEffects(once)
       IN /\ preferredModel' = st.stored
          /\ queued' = st.queued
  /\ mount' = "effects"
  /\ UNCHANGED <<currentModel, savedModel>>
  /\ UNCHANGED chatVars
  /\ UNCHANGED <<request, isListening, recognitions, ttsEnabled, utterance,
                 inFlight>>

\* The render the mount effects asked for: the queued updates are applied in
\* order, and the effect of [currentModel] runs if currentModel changed.
Rerender ==
  /\ mount = "effects"
  /\ currentModel' = IF queued = <<>> THEN currentModel
                     ELSE queued[Len(queued)]
  /\ SaveEffect
  /\ queued' = <<>>
  /\ mount' = "done"
  /\ UNCHANGED savedModel
  /\ UNCHANGED chatVars
  /\ UNCHANGED <<request, isListening, recognitions, ttsEnabled, utterance,
                 inFlight>>

\* The page is opened: the first render is committed with the default
\* model, over whatever an earlier session left in localStorage.
InitMount ==
  /\ messages = <<>>
  /\ inputText = <<>>
  /\ isLoading = FALSE
  /\ pc = "idle"
  /\ settled = Pending
  /\ stream = <<>>
  /\ pos = 0
  /\ aiResponseText = <<>>
  /\ firstChunk = TRUE
  /\ openIdx = 0
  /\ parseLog = <<>>
  /\ served = 0
  /\ currentModel = DefaultModel
  /\ request = NoRequest
  /\ isListening = FALSE
  /\ recognitions = <<>>
  /\ ttsEnabled = FALSE
  /\ utterance = NoUtterance
  /\ inFlight = 0
  /\ preferredModel \in StoredSet
  /\ savedModel = preferredModel
  /\ mount = "rendered"
  /\ queued = <<>>

\* The user acts once the page is mounted.
MountedChatStep == mount = "done" /\ ChatStep

NextMount ==
  \/ MountEffects
  \/ Rerender
  \/ HandleModelChange
  \/ MountedChatStep

SpecMount == InitMount /\ [][NextMount]_vars

\* A voice gate that lets every click through.
VoiceGateOpen == TRUE

\* if (isLoading) return;
VoiceGate == ~isLoading

\* The recognitions that are kept track of: the ended ones are dropped, but
\* for window.speechRecognition.
Kept(recs) ==
  [i \in 1..Len(SelectSeq(recs, Live)) |-> SelectSeq(recs, Live)[i]]
  \o (IF recs # <<>> /\ ~Live(recs[Len(recs)]) THEN <<"ended">> ELSE <<>>)

\* onClick of the microphone button, in a browser that has speech
\* recognition.
HandleVoiceInput ==
  IF ~VoiceGate
  THEN UNCHANGED vars
  ELSE IF isListening
  THEN \* window.speechRecognition?.stop(); setIsListening(false)
       /\ recognitions' =
            IF recognitions # <<>>
               /\ recognitions[Len(recognitions)] \in {"starting", "running"}
            THEN [recognitions EXCEPT ![Len(recognitions)] = "stopping"]
            ELSE recognitions
       /\ isListening' = FALSE
       /\ UNCHANGED chatVars
       /\ UNCHANGED <<modelVars, request, ttsEnabled, utterance, inFlight>>
  ELSE \* new SpeechRecognition(); ...; recognition.start(), or the catch
       /\ Len(SelectSeq(recognitions, Live)) < MaxRecognitions
       /\ \/ /\ recognitions' = Append(SelectSeq(recognitions, Live), "starting")
             /\ UNCHANGED isListening
          \/ /\ recognitions' = Append(SelectSeq(recognitions, Live), "ended")
             /\ isListening' = FALSE
       /\ UNCHANGED chatVars
       /\ UNCHANGED <<modelVars, request, ttsEnabled, utterance, inFlight>>

\* recognition.onstart
OnStart ==
  \E i \in 1..Len(recognitions) :
    /\ recognitions[i] = "starting"
    /\ recognitions' = [recognitions EXCEPT ![i] = "running"]
    /\ isListening' = TRUE
    /\ UNCHANGED chatVars
    /\ UNCHANGED <<modelVars, request, ttsEnabled, utterance, inFlight>>

\* An onresult that posts the transcript as a message.
OnResultPosts ==
  \E i \in 1..Len(recognitions), transcript \in TranscriptSet :
    /\ recognitions[i] \in {"running", "stopping"}
    /\ messages' = Append(messages, Msg("user", transcript))
    /\ UNCHANGED <<inputText, isLoading, pc, settled, stream, pos,
                   aiResponseText, firstChunk, openIdx, parseLog, served>>
    /\ UNCHANGED <<modelVars, request, isListening, recognitions,
                   ttsEnabled, inFlight>>
    /\ TtsEffect

\* recognition.onresult: setInputText(transcript)
OnResult ==
  \E i \in 1..Len(recognitions), transcript \in TranscriptSet :
    /\ recognitions[i] \in {"running", "stopping"}
    /\ inputText' = transcript
    /\ UNCHANGED <<messages, isLoading, pc, settled, stream, pos,
                   aiResponseText, firstChunk, openIdx, parseLog, served>>
    /\ UNCHANGED sideVars

\* recognition.onerror; the recognition then ends.
OnError ==
  \E i \in 1..Len(recognitions) :
    /\ recognitions[i] \in {"starting", "running"}
    /\ recognitions' = [recognitions EXCEPT ![i] = "stopping"]
    /\ isListening' = FALSE
    /\ UNCHANGED chatVars
    /\ UNCHANGED <<modelVars, request, ttsEnabled, utterance, inFlight>>

\* recognition.onend, after stop(), after an error or by itself.
OnEnd ==
  \E i \in 1..Len(recognitions) :
    /\ recognitions[i] \in {"running", "stopping"}
    /\ recognitions' = Kept([recognitions EXCEPT ![i] = "ended"])
    /\ isListening' = FALSE
    /\ UNCHANGED chatVars
    /\ UNCHANGED <<modelVars, request, ttsEnabled, utterance, inFlight>>

NextVoice ==
  \/ ChatStep
  \/ HandleVoiceInput
  \/ OnStart
  \/ OnResult
  \/ OnError
  \/ OnEnd

SpecVoice == Init /\ [][NextVoice]_vars

\* onClick of the TTS toggle: setTtsEnabled(!ttsEnabled)
ToggleTts ==
  /\ ttsEnabled' = ~ttsEnabled
  /\ UNCHANGED chatVars
  /\ UNCHANGED <<modelVars, request, isListening, recognitions, inFlight>>
  /\ TtsEffect

NextTts == ChatStep \/ ToggleTts

SpecTts == Init /\ [][NextTts]_vars

----------------------------------------------------------------------------
\* The updaters of a content fragment as pure functions of the conversation
\* they are applied to: every conversation of bounded length is an input.

UpdTexts == { <<"h">>, <<"a">>, ParseDiag }
UpdReplies == { <<"a">>, <<"a", "b">> }
MsgSet == { Msg(sender, text) : sender \in {"user", "ai"}, text \in UpdTexts }
ConvSet == UNION { [1..n -> MsgSet] : n \in 0..MaxConv }

InitUpd ==
  /\ messages \in ConvSet
  /\ aiResponseText \in UpdReplies
  /\ firstChunk \in BOOLEAN
  /\ pc = "upd"
  /\ inputText = <<>>
  /\ isLoading = TRUE
  /\ settled = Pending
  /\ stream = <<>>
  /\ pos = 0
  /\ openIdx = 0
  /\ parseLog = <<>>
  /\ served = 0
  /\ currentModel = DefaultModel
  /\ request = NoRequest
  /\ isListening = FALSE
  /\ recognitions = <<>>
  /\ ttsEnabled = FALSE
  /\ utterance = NoUtterance
  /\ inFlight = 1
  /\ preferredModel = DefaultModel
  /\ savedModel = NoItem
  /\ mount = "done"
  /\ queued = <<>>

\* React applies the updater queued for a content fragment.
ApplyUpdater ==
  /\ pc = "upd"
  /\ pc' = "applied"
  /\ messages' = IF firstChunk THEN AppendAi(messages, aiResponseText)
                 ELSE UpdateLast(messages, aiResponseText)
  /\ UNCHANGED <<inputText, isLoading, settled, stream, pos, aiResponseText,
                 firstChunk, openIdx, parseLog, served>>
  /\ UNCHANGED sideVars

NextUpd == ApplyUpdater

SpecUpd == InitUpd /\ [][NextUpd]_vars

----------------------------------------------------------------------------
\* Vocabulary of the properties.

Last(sq) == sq[Len(sq)]

IsPrefix(sq, tq) == Len(sq) <= Len(tq) /\ SubSeq(tq, 1, Len(sq)) = sq

IsParseDiag(text) == text # <<>> /\ text[1] = ParseErrPrefix
IsConnDiag(text) == text # <<>> /\ text[1] = ConnErrPrefix
IsDiag(text) == IsParseDiag(text) \/ IsConnDiag(text)

NumUser(msgs) == Cardinality({ i \in 1..Len(msgs) : msgs[i].sender = "user" })

\* Index of the user message of the current cycle (0 when there is none).
LastUserIdx(msgs) ==
  IF NumUser(msgs) = 0 THEN 0
  ELSE CHOOSE i \in 1..Len(msgs) :
         /\ msgs[i].sender = "user"
         /\ \A j \in (i + 1)..Len(msgs) : msgs[j].sender # "user"

\* The positions the current cycle has appended at.
CyclePositions == (LastUserIdx(messages) + 1)..Len(messages)

\* The assistant messages of the current cycle that hold reply text.
Replies ==
  { i \in CyclePositions :
      messages[i].sender = "ai" /\ ~IsDiag(messages[i].text) }

\* The assistant messages of the current cycle that report a decode failure.
ParseDiags == { i \in CyclePositions : IsParseDiag(messages[i].text) }

\* Concatenation, in order, of the content of the decoded lines of a log.
RECURSIVE DecodedText(_)
DecodedText(log) ==
  IF log = <<>> THEN <<>>
  ELSE (IF Head(log).ok THEN Head(log).content ELSE <<>>)
         \o DecodedText(Tail(log))

HasContent(log) == \E i \in 1..Len(log) : log[i].ok /\ log[i].content # <<>>
NumFailed(log) == Cardinality({ i \in 1..Len(log) : ~log[i].ok })

\* Concatenation, in order, of the content of the lines that decode.
RECURSIVE ContentOfLines(_)
ContentOfLines(lines) ==
  IF lines = <<>> THEN <<>>
  ELSE (IF JSONParse(Head(lines)).ok THEN JSONParse(Head(lines)).content
        ELSE <<>>) \o ContentOfLines(Tail(lines))

\* Every non-blank line of the body is a JSON object.
WellFormed(body) ==
  \A i \in 1..Len(Lines(body)) : JSONParse(Lines(body)[i]).ok

\* The reader has reported end of stream and sendMessage has not yet resumed.
StreamEnded == pc = "read" /\ settled.kind = "done"

\* A step that reads a chunk, and the chunk it reads.
ChunkStep == pc = "read" /\ pos' > pos
StepChunk == SubSeq(stream, pos + 1, pos')

----------------------------------------------------------------------------
\* C1: when the stream of a cycle that decoded at least one content fragment
\* ends, the conversation holds exactly one assistant reply message of that
\* cycle, and its text is the concatenation, in arrival order, of the content
\* of every successfully decoded line of the cycle.
C1_OneReplyWithAllContent ==
  StreamEnded /\ HasContent(parseLog) =>
    /\ Cardinality(Replies) = 1
    /\ \A i \in Replies : messages[i].text = DecodedText(parseLog)

\* C2: chunking-invariance: for a well-formed body, however the transport
\* cuts it, the final aiResponseText is the content of the whole body and the
\* final conversation is the one the body delivered as a single chunk gives.
C2_ChunkingInvariance ==
  StreamEnded /\ WellFormed(stream) =>
    LET before == SubSeq(messages, 1, LastUserIdx(messages))
        whole == ProcessChunk(LoopState(<<>>, TRUE, before, 0, <<>>), stream)
    IN /\ aiResponseText = ContentOfLines(Lines(stream))
       /\ messages = whole.msgs

\* C3: a line that fails to decode never stops the stream: the step that
\* reads a chunk decodes every line of the chunk, appends the content of every
\* line that decodes (also of those after a failed one) to aiResponseText,
\* leaves the accumulated text in the conversation, followed by nothing but
\* decode diagnostics, and stays in the read loop.
C3_MalformedLineNeverHalts ==
  [][ChunkStep =>
       /\ Len(parseLog') = Len(parseLog) + Len(Lines(StepChunk))
       /\ aiResponseText' = aiResponseText \o ContentOfLines(Lines(StepChunk))
       /\ ContentOfLines(Lines(StepChunk)) # <<>> =>
            \E i \in 1..Len(messages') :
              /\ messages'[i] = Msg("ai", aiResponseText')
              /\ \A j \in (i + 1)..Len(messages') :
                   IsParseDiag(messages'[j].text)
       /\ pc' = "read"
       /\ settled'.kind = "pending"]_vars

\* C3 witness: in one cycle a content fragment was applied after a line that
\* failed to decode.
C3_Witness ==
  /\ pc = "read"
  /\ \E i, j \in 1..Len(parseLog) :
       i < j /\ ~parseLog[i].ok /\ parseLog[j].content # <<>>
  /\ Last(messages).text = aiResponseText

\* C4: isLoading is true exactly while a sendMessage invocation is in flight.
C4_LoadingIffInFlight == isLoading <=> pc # "idle"

\* C4 witness: a cycle in the middle of its stream, with isLoading set.
C4_Witness == pc = "read" /\ pos > 0 /\ pos < Len(stream) /\ isLoading

\* The transport of the running cycle has terminated.
TransportTerminated ==
  \/ pc = "fetch" /\ settled.kind = "rejected"
  \/ pc = "fetch" /\ settled.kind = "response"
       /\ (~Ok(settled) \/ ~settled.hasBody)
  \/ pc = "read" /\ settled.kind = "done"

\* The continuation of a settled promise is run by the event loop.
LiveSpec == Spec /\ WF_vars(HandleFetch) /\ WF_vars(HandleRead)

\* C5: once the transport of an accepted send has terminated, isLoading
\* eventually becomes false and sendMessage is back at its gate; a failed
\* read, which ends the cycle in the step that reports it, leaves isLoading
\* false as well.
C5_LoadingEventuallyCleared ==
  /\ TransportTerminated ~> (~isLoading /\ pc = "idle")
  /\ [][pc # "idle" /\ pc' = "idle" => ~isLoading']_vars

\* C5 witness: a cycle ended by a failed read after a partial reply; the
\* flag is clear again.
C5_Witness ==
  /\ pc = "idle"
  /\ ~isLoading
  /\ Len(messages) >= 3
  /\ IsConnDiag(Last(messages).text)
  /\ ~IsDiag(messages[Len(messages) - 1].text)
  /\ messages[Len(messages) - 1].sender = "ai"

\* C6: a content fragment never changes a user message, and a non-first
\* content fragment applied to a conversation whose last message is a user
\* message appends a new assistant message holding aiResponseText.
C6_UserMessageNeverOverwritten ==
  [][pc = "upd" /\ pc' = "applied" =>
       /\ \A i \in 1..Len(messages) :
            messages[i].sender = "user" =>
              i <= Len(messages') /\ messages'[i] = messages[i]
       /\ ~firstChunk /\ Len(messages) > 0 /\ Last(messages).sender = "user" =>
            messages' = Append(messages, Msg("ai", aiResponseText))]_vars

\* C6 witness: a non-first fragment was applied to a conversation of maximal
\* length ending in a user message, and the conversation grew.
C6_Witness ==
  /\ pc = "applied"
  /\ ~firstChunk
  /\ Len(messages) = MaxConv + 1
  /\ messages[MaxConv].sender = "user"
  /\ Last(messages) = Msg("ai", aiResponseText)

\* C7: while a cycle has an open assistant message (firstChunk is false),
\* the message the cycle opened is the last message of the conversation and
\* its sender is assistant.
C7_OpenMessageIsLast ==
  pc = "read" /\ ~firstChunk =>
    /\ openIdx = Len(messages)
    /\ messages[openIdx].sender = "ai"

\* C8: aiResponseText is empty when a cycle starts to read; a step of the
\* cycle only ever extends it, strictly when the chunk carries content and
\* not at all otherwise.
C8_TextOnlyGrows ==
  [][/\ pc = "fetch" /\ pc' = "read" => aiResponseText' = <<>>
     /\ pc = "read" /\ pc' = "read" =>
          /\ IsPrefix(aiResponseText, aiResponseText')
          /\ IF ChunkStep /\ ContentOfLines(Lines(StepChunk)) # <<>>
             THEN Len(aiResponseText') > Len(aiResponseText)
             ELSE aiResponseText' = aiResponseText]_vars

\* C8 witness: the second cycle has accumulated a fragment of its own after
\* the first cycle left a reply.
C8_Witness ==
  /\ pc = "read"
  /\ NumUser(messages) = 2
  /\ messages[2] = Msg("ai", <<"a">>)
  /\ aiResponseText = <<"b">>
  /\ Last(messages) = Msg("ai", <<"b">>)

\* C9: a response with a non-success status or without a body makes the
\* cycle append exactly one connection diagnostic after the user message,
\* read nothing, and end with isLoading false.
C9_FailedResponse ==
  [][/\ pc = "fetch"
     /\ settled.kind = "response"
     /\ settled.status # "200" \/ ~settled.hasBody
     =>
     /\ Last(messages).sender = "user"
     /\ messages' =
          Append(messages,
                 Msg("ai", ConnDiag(IF settled.status # "200"
                                    THEN HttpError(settled.status)
                                    ELSE NullBodyError)))
     /\ pos' = 0
     /\ pc' = "idle"
     /\ ~isLoading']_vars

\* C9 witness: a cycle ended by an HTTP 500 response that carried a body.
C9_Witness ==
  /\ pc = "idle"
  /\ ~isLoading
  /\ served > 0
  /\ Len(messages) = 2
  /\ messages[2] = Msg("ai", ConnDiag(HttpError("500")))

\* C10: at the end of the stream the conversation holds one decode
\* diagnostic of this cycle for each line of the cycle that failed to decode.
C10_OneDiagnosticPerMalformedLine ==
  StreamEnded => Cardinality(ParseDiags) = NumFailed(parseLog)

----------------------------------------------------------------------------
\* Index of the first entry of a log that carries content (Len + 1 if none).
FirstContentIdx(log) ==
  IF HasContent(log)
  THEN CHOOSE i \in 1..Len(log) :
         /\ log[i].ok /\ log[i].content # <<>>
         /\ \A j \in 1..(i - 1) : ~(log[j].ok /\ log[j].content # <<>>)
  ELSE Len(log) + 1

\* A line failed to decode before the first content fragment of the cycle.
FailureBeforeContent(log) ==
  HasContent(log) /\ \E i \in 1..(FirstContentIdx(log) - 1) : ~log[i].ok

\* Index of the first failed entry after the first content fragment
\* (Len + 1 if none).
NextFailureIdx(log) ==
  IF \E i \in (FirstContentIdx(log) + 1)..Len(log) : ~log[i].ok
  THEN CHOOSE i \in (FirstContentIdx(log) + 1)..Len(log) :
         /\ ~log[i].ok
         /\ \A j \in (FirstContentIdx(log) + 1)..(i - 1) : log[j].ok
  ELSE Len(log) + 1

C16_ReadFailure ==
  [][pc = "read" /\ settled.kind = "pending" /\ pc' = "idle" =>
       /\ \E err \in NetErrors :
            messages' = Append(messages, Msg("ai", ConnDiag(<<err>>)))
       /\ ~isLoading']_vars

\* C16 witness: a read failed after a partial reply; the reply is still
\* there, followed by the diagnostic.
C16_Witness ==
  /\ pc = "idle"
  /\ ~isLoading
  /\ Len(messages) = 3
  /\ messages[2] = Msg("ai", <<"a">>)
  /\ \E err \in NetErrors : messages[3] = Msg("ai", ConnDiag(<<err>>))

\* Every line decodes.
AllDecode(lines) == \A i \in 1..Len(lines) : JSONParse(lines[i]).ok

\* C17: content fragments applied while a message is open and the last
\* message is an assistant message change only the text of that last
\* message: the length of the conversation and every earlier message stay.
C17_InPlaceUpdate ==
  [][/\ ChunkStep
     /\ ~firstChunk
     /\ Last(messages).sender = "ai"
     /\ AllDecode(Lines(StepChunk))
     /\ ContentOfLines(Lines(StepChunk)) # <<>>
     =>
     /\ Len(messages') = Len(messages)
     /\ \A i \in 1..(Len(messages) - 1) : messages'[i] = messages[i]
     /\ Last(messages') = Msg("ai", aiResponseText')]_vars

\* C17 witness: two content fragments of one cycle ended in one message.
C17_Witness ==
  /\ pc = "read"
  /\ Len(parseLog) = 2
  /\ parseLog[1].content # <<>>
  /\ parseLog[2].content # <<>>
  /\ Len(messages) = 2
  /\ messages[2] = Msg("ai", parseLog[1].content \o parseLog[2].content)

\* Every line decodes and none carries content.
AllContentFree(lines) ==
  \A i \in 1..Len(lines) :
    JSONParse(lines[i]).ok /\ JSONParse(lines[i]).content = <<>>

\* C18: lines that decode without content change neither aiResponseText nor
\* firstChunk nor the conversation, and do not end the loop: the lines after
\* them are decoded and their content applied, and the cycle keeps reading.
C18_ContentFreeLineIsNoOp ==
  [][ChunkStep =>
       /\ AllContentFree(Lines(StepChunk)) =>
            UNCHANGED <<aiResponseText, firstChunk, messages>>
       /\ Len(parseLog') = Len(parseLog) + Len(Lines(StepChunk))
       /\ aiResponseText' = aiResponseText \o ContentOfLines(Lines(StepChunk))
       /\ pc' = "read"
       /\ settled'.kind = "pending"]_vars

\* C18 witness: a content fragment was applied after a line that decoded
\* without content.
C18_Witness ==
  /\ pc = "read"
  /\ \E i, j \in 1..Len(parseLog) :
       /\ i < j
       /\ parseLog[i].ok /\ parseLog[i].content = <<>>
       /\ parseLog[j].content # <<>>
  /\ Last(messages) = Msg("ai", aiResponseText)

\* A piece with a character that is not whitespace.
NonBlank(piece) == \E i \in 1..Len(piece) : piece[i] \notin WhitespaceChars
NonBlankPieces(chunk) == SelectSeq(SplitNL(chunk), NonBlank)

\* C19: the empty and whitespace-only pieces of a chunk are never decoded:
\* the step decodes exactly the other pieces, in their order, and a chunk of
\* blank pieces only changes nothing.
C19_BlankPiecesDiscarded ==
  [][ChunkStep =>
       LET pieces == NonBlankPieces(StepChunk)
       IN /\ Len(parseLog') = Len(parseLog) + Len(pieces)
          /\ \A j \in 1..Len(pieces) :
               parseLog'[Len(parseLog) + j] = LogEntry(JSONParse(pieces[j]))
          /\ pieces = <<>> =>
               UNCHANGED <<messages, aiResponseText, firstChunk, parseLog>>]_vars

\* C19 witness: a body with a whitespace-only line was read to its end
\* without a decode failure and with content applied.
C19_Witness ==
  /\ pc = "read"
  /\ pos = Len(stream)
  /\ \E i \in 1..Len(stream) : stream[i] = " "
  /\ NumFailed(parseLog) = 0
  /\ HasContent(parseLog)

\* C12: sendMessage invoked while isLoading is true or with a blank input
\* changes nothing, and neither does handleVoiceInput invoked while isLoading
\* is true: in such a state no step of the handler changes any variable.
C12_RejectedInvocationsChangeNothing ==
  /\ (isLoading \/ Trim(inputText) = <<>>) => ~ENABLED <<SendMessage>>_vars
  /\ isLoading => ~ENABLED <<HandleVoiceInput>>_vars

\* C12 witness: a cycle is reading while the input holds a transcript and a
\* recognition is running: both handlers can be invoked and are rejected.
C12_Witness ==
  /\ pc = "read"
  /\ isLoading
  /\ inputText = <<"h">>
  /\ isListening
  /\ recognitions = <<"running">>

\* A speech-recognition event is delivered.
RecognitionEvent == OnStart \/ OnResult \/ OnError \/ OnEnd

\* C13: a recognition event changes inputText and isListening (and the
\* phase of its recognition) only: the conversation, aiResponseText,
\* isLoading and the rest of the running cycle are left as they are.
C13_RecognitionEventsFrame ==
  [][RecognitionEvent =>
       /\ UNCHANGED <<messages, aiResponseText, isLoading>>
       /\ UNCHANGED <<pc, settled, stream, pos, firstChunk, openIdx, parseLog>>
       /\ UNCHANGED <<currentModel, request, ttsEnabled, utterance, inFlight>>]_vars

\* C13 witness: in the middle of a reply a running recognition has delivered
\* a transcript.
C13_Witness ==
  /\ pc = "read"
  /\ pos > 0
  /\ pos < Len(stream)
  /\ Last(messages).sender = "ai"
  /\ inputText = <<"h">>
  /\ \E i \in 1..Len(recognitions) : recognitions[i] = "running"

\* C14: the request of an accepted sendMessage carries stream true, the
\* selected model and one entry per message of the conversation at send time,
\* in order and ending with the new user message; user maps to role user,
\* every other sender to assistant, content is the text.
C14_RequestContents ==
  [][pc = "idle" /\ pc' = "fetch" =>
       /\ request'.stream = TRUE
       /\ request'.model = currentModel
       /\ Len(request'.messages) = Len(messages) + 1
       /\ \A i \in 1..Len(messages) :
            request'.messages[i] =
              [role |-> IF messages[i].sender = "user" THEN "user"
                        ELSE "assistant",
               content |-> messages[i].text]
       /\ request'.messages[Len(messages) + 1] =
            [role |-> "user", content |-> inputText]]_vars

\* C14 witness: a second request, under the other model, with the first
\* exchange in it.
C14_Witness ==
  /\ pc = "fetch"
  /\ request.model = "mistral"
  /\ Len(request.messages) = 3
  /\ request.messages[2].role = "assistant"
  /\ request.messages[3].role = "user"

\* C15: at most one invocation of sendMessage is past the gate and not yet
\* returned, and there is one exactly while a cycle is in progress.
C15_AtMostOneCycle ==
  /\ inFlight \in {0, 1}
  /\ inFlight = 1 <=> pc # "idle"
  /\ inFlight = 1 <=> isLoading

\* C15 witness: a second cycle is in flight after the first has ended, with
\* its user message taken from an input that was filled meanwhile.
C15_Witness ==
  /\ inFlight = 1
  /\ pc = "fetch"
  /\ NumUser(messages) = 2

\* C20: speech synthesis is called only by steps that end with ttsEnabled
\* true, isLoading false, no cycle in progress and an assistant message last,
\* and it is handed the whole text of that message.
C20_SpeechOnlyWhenIdle ==
  [][utterance' # utterance =>
       /\ ttsEnabled'
       /\ ~isLoading'
       /\ pc' = "idle"
       /\ messages' # <<>>
       /\ Last(messages').sender = "ai"
       /\ utterance'.text = Last(messages').text]_vars

\* C20 witness: a reply of two fragments has been spoken after its cycle.
C20_Witness ==
  /\ pc = "idle"
  /\ ttsEnabled
  /\ utterance.n = 1
  /\ utterance.text = <<"a", "b">>
  /\ Last(messages) = Msg("ai", <<"a", "b">>)

\* C21: the model preference survives a restart: when localStorage holds a
\* saved model as the page is opened, then once the mount effects and the
\* re-render they cause have run, currentModel and the stored item both equal
\* it; and after every later handleModelChange(m) the stored item equals m.
C21_PreferenceSurvivesRestart ==
  [][/\ mount # "done" /\ mount' = "done" /\ savedModel # NoItem =>
          currentModel' = savedModel /\ preferredModel' = savedModel
     /\ mount = "done" /\ currentModel' # currentModel =>
          preferredModel' = currentModel']_vars

====
